---- MODULE Spec2Model ----
(***************************************************************************)
(* Model of observable-framework's CLI helpers:                            *)
(*   src/src/observableApiAuth.ts  login / logout / whoami                 *)
(*   src/src/create.ts             validateRootPath / canWriteRecursive /  *)
(*                                 recursiveCopyTemplate                   *)
(* Strings are sequences of atoms (an atom is a run of characters of one   *)
(* character class), messages are sequences of strings.                    *)
(***************************************************************************)
EXTENDS Integers, Sequences, FiniteSets, TLC

VARIABLES
  store,         \* the file-backed credential (observableApiConfig)
  pc,            \* position of the running command
  cmd,           \* the command that is running or ran last
  env,           \* environment override seen by this invocation
  apiKey,        \* the local `apiKey` of login / whoami
  responses,     \* poll responses received by the current login run
  events,        \* effect calls of the current run, in order
  outcome,       \* how the last run ended
  history,       \* completed commands, oldest first
  storeAtStart,  \* value of store when the current run started
  template,      \* the template tree, as the entries visited in traversal order
  context,       \* the placeholder context passed to recursiveCopyTemplate
  stepIdx,       \* index of the next template entry to visit
  fsOps,         \* mkdir / writeFile / copyFile calls made so far, in order
  renderStatus,  \* "idle", "running", "done" or "failed"
  renderError,   \* message of the error that aborted the copy
  fsKind,        \* filesystem: "absent", "file" or "dir" for each node
  fsWritable,    \* filesystem: the nodes that pass access(W_OK)
  rootPath,      \* the text submitted at the "Where to create your project?" prompt
  validation,    \* "pending", or what validateRootPath returned ("" for undefined)
  walkPath,      \* canWriteRecursive: the value of its rootPath variable
  walkTested,    \* canWriteRecursive: the paths handed to accessSync, in order
  walkResult,    \* canWriteRecursive: "idle", "running", "true" or "false"
  createPc,      \* create: the prompt or step the flow is at
  answers,       \* create: the results collected by clack.group
  flow,          \* create: prompt, spinner, sleep, exec and exit calls, in order
  exitCode       \* create: <<>>, or <<code>> once process.exit(code) was called

authVars == <<store, pc, cmd, env, apiKey, responses, events, outcome, history, storeAtStart>>
renderVars == <<template, context, stepIdx, fsOps, renderStatus, renderError>>
validateVars == <<fsKind, fsWritable, rootPath, validation>>
walkVars == <<walkPath, walkTested, walkResult>>
flowVars == <<createPc, answers, flow, exitCode>>
createVars == <<renderVars, validateVars, walkVars, flowVars>>
vars == <<authVars, createVars>>

----------------------------------------------------------------------------
(* Bounds *)

MaxPolls == 3
MaxOps == 3

----------------------------------------------------------------------------
(* Values *)

Last(s) == s[Len(s)]

NullKey == [tag |-> "null", id |-> "", key |-> "", source |-> "", envVar |-> ""]
UndefinedKey == [tag |-> "undefined", id |-> "", key |-> "", source |-> "", envVar |-> ""]
KeyPair(i, k) == [tag |-> "key", id |-> i, key |-> k, source |-> "", envVar |-> ""]
K1 == KeyPair("id1", "key1")
K2 == KeyPair("id2", "key2")
KeyPairs == {K1, K2}

NoEnv == NullKey
EnvKey == [tag |-> "key", id |-> "", key |-> "envkey", source |-> "env", envVar |-> "OBSERVABLE_TOKEN"]
Envs == {NoEnv, EnvKey}

KnownStatuses == {"pending", "accepted", "expired", "consumed"}
UnknownStatuses == {"revoked", "Pending"}
Statuses == KnownStatuses \cup UnknownStatuses

PollResponse(s, k) == [status |-> s, apiKey |-> k]
PollResponses ==
  {PollResponse(s, NullKey) : s \in Statuses \ {"accepted"}}
    \cup {PollResponse("accepted", k) : k \in KeyPairs \cup {NullKey, UndefinedKey}}

User(l, n, w) == [login |-> l, name |-> n, workspaces |-> w]
Users == {User("ann", "", 0), User("bob", "Bob", 1), User("cat", "Cat", 2)}

Ok == [kind |-> "ok", msg |-> <<>>]
None == [kind |-> "none", msg |-> <<>>]
Err(k, m) == [kind |-> k, msg |-> m]
Http401 == Err("HttpError", <<"401">>)
Http500 == Err("HttpError", <<"500">>)
NetworkError == Err("Error", <<"fetch failed">>)
FetchErrors == {Http401, Http500, NetworkError}

Ev(o, m, k) == [op |-> o, msg |-> m, key |-> k]

----------------------------------------------------------------------------
(* Pure helpers of observableApiAuth.ts *)

formatUser(user) ==
  IF user.name # "" THEN <<user.name, " (@", user.login, ")">> ELSE <<"@", user.login>>

isHttpError(error) == error.kind = "HttpError"

IsUnauthorized_AnyHttp(error) == isHttpError(error)

IsUnauthorized(error) == isHttpError(error) /\ error.msg = <<"401">>

Rejected(error) == Ev("getCurrentUser.rejected", <<error.kind>> \o error.msg, NullKey)

ExpiredMessage == <<"That confirmation code expired.">>
ConsumedMessage == <<"That confirmation code has already been used.">>
UnknownStatusMessage_Generic(status) == <<"Received an unknown polling status.">>

UnknownStatusMessage(status) == <<"Received an unknown polling status ", status, ".">>
NoApiKeyMessage == <<"No API key returned from server.">>
NotAuthenticatedMessage == <<"You haven't authenticated with Observable yet.">>

InvalidKeyMessage(k) ==
  IF k.source = "env"
    THEN <<"Your API key is invalid. Check the value of the ", k.envVar, " environment variable.">>
    ELSE IF k.source = "file"
      THEN <<"Your API key is invalid. Run ", "observable login", " to log in again.">>
      ELSE <<"Your API key is invalid.">>

LoggedInMessage(user) == <<"You are logged into ", "observablehq.com", " as ">> \o formatUser(user) \o <<".">>

----------------------------------------------------------------------------
(* The credential store (observableApiConfig.ts, not part of src/) *)

setObservableApiKey(info) ==
  IF info.tag = "key" THEN KeyPair(info.id, info.key) ELSE NullKey

getObservableApiKey(file, override) ==
  IF override # NoEnv
    THEN [ok |-> TRUE, key |-> override]
    ELSE IF file.tag = "key"
      THEN [ok |-> TRUE, key |-> [file EXCEPT !.source = "file"]]
      ELSE [ok |-> FALSE, key |-> NullKey]

NotAuthenticated == Err("CliError", NotAuthenticatedMessage)

----------------------------------------------------------------------------
(* Initial state: no command has run; the config file holds a key or not *)

ValidateIdle ==
  /\ fsKind = <<>>
  /\ fsWritable = {}
  /\ rootPath = [abs |-> FALSE, segs |-> <<>>]
  /\ validation = "idle"

WalkIdle ==
  /\ walkPath = [abs |-> FALSE, segs |-> <<>>]
  /\ walkTested = <<>>
  /\ walkResult = "idle"

\* results of clack.group before any prompt has answered
NoAnswers == [rootPath |-> [abs |-> FALSE, segs |-> <<>>], includeSampleFiles |-> FALSE,
              packageManager |-> "null", initializeGit |-> FALSE]

FlowIdle ==
  /\ createPc = "idle"
  /\ answers = NoAnswers
  /\ flow = <<>>
  /\ exitCode = <<>>

AuthIdle ==
  /\ store = NullKey
  /\ pc = "idle"
  /\ cmd = "none"
  /\ env = NoEnv
  /\ apiKey = NullKey
  /\ responses = <<>>
  /\ events = <<>>
  /\ outcome = None
  /\ history = <<>>
  /\ storeAtStart = NullKey

RenderIdle ==
  /\ template = <<>>
  /\ context = <<>>
  /\ stepIdx = 1
  /\ fsOps = <<>>
  /\ renderStatus = "idle"
  /\ renderError = <<>>

Init ==
  /\ store \in {NullKey, K1}
  /\ pc = "idle"
  /\ cmd = "none"
  /\ env = NoEnv
  /\ apiKey = NullKey
  /\ responses = <<>>
  /\ events = <<>>
  /\ outcome = None
  /\ history = <<>>
  /\ storeAtStart = store
  /\ RenderIdle
  /\ ValidateIdle
  /\ WalkIdle
  /\ FlowIdle

PollCount == Cardinality({i \in 1..Len(events) : events[i].op = "postAuthRequestPoll"})

Finish(c, o) ==
  /\ pc' = "idle"
  /\ outcome' = o
  /\ history' = Append(history, c)

Throw(c, evs, e) ==
  /\ events' = Append(evs, Ev("throw", e.msg, NullKey))
  /\ Finish(c, e)

----------------------------------------------------------------------------
(* login, observableApiAuth.ts:36-92 *)

LoginStart ==
  /\ UNCHANGED createVars
  /\ pc = "idle"
  /\ Len(history) < MaxOps
  /\ cmd' = "login"
  /\ env' = NoEnv
  /\ storeAtStart' = store
  /\ responses' = <<>>
  /\ apiKey' = NullKey
  /\ \E req \in {"ok", "fail"} :
       LET evs == <<Ev("intro", <<" observable login ">>, NullKey),
                    Ev("postAuthRequest", <<"projects:deploy", "projects:create">>, NullKey)>>
       IN IF req = "ok"
            THEN /\ events' = evs \o <<Ev("log.step", <<"Your confirmation code is ">>, NullKey),
                                       Ev("spinner.start", <<"Waiting for confirmation...">>, NullKey)>>
                 /\ pc' = "poll"
                 /\ outcome' = None
                 /\ UNCHANGED history
            ELSE Throw("login", evs, Http500)
  /\ UNCHANGED store

Continuing(r) == r.status = "pending" \/ (r.status = "accepted" /\ r.apiKey = NullKey)

SpinnerStop_Default == Ev("spinner.stop", <<"Failed to confirm code.">>, NullKey)

SpinnerStopFailed == Ev("spinner.stop", <<"Failed to confirm code.", "2">>, NullKey)

LoginPoll ==
  /\ UNCHANGED createVars
  /\ pc = "poll"
  /\ \E r \in PollResponses :
       /\ Continuing(r) => PollCount + 1 < MaxPolls
       /\ responses' = Append(responses, r)
       /\ LET evs == Append(events, Ev("postAuthRequestPoll", <<r.status>>, r.apiKey))
          IN CASE r.status = "pending" ->
                    /\ events' = evs
                    /\ pc' = "sleep"
                    /\ UNCHANGED <<apiKey, outcome, history>>
               [] r.status = "accepted" ->
                    /\ events' = evs
                    /\ apiKey' = r.apiKey
                    /\ pc' = "sleep"
                    /\ UNCHANGED <<outcome, history>>
               [] r.status = "expired" ->
                    /\ Throw("login", Append(evs, SpinnerStopFailed), Err("CliError", ExpiredMessage))
                    /\ UNCHANGED apiKey
               [] r.status = "consumed" ->
                    /\ Throw("login", Append(evs, SpinnerStopFailed), Err("CliError", ConsumedMessage))
                    /\ UNCHANGED apiKey
               [] OTHER ->
                    /\ Throw("login", Append(evs, SpinnerStopFailed), Err("CliError", UnknownStatusMessage(r.status)))
                    /\ UNCHANGED apiKey
  /\ UNCHANGED <<store, cmd, env, storeAtStart>>

LoginPollFails ==
  /\ UNCHANGED createVars
  /\ pc = "poll"
  /\ \E e \in {Http500, NetworkError} :
       Throw("login", Append(events, Ev("postAuthRequestPoll", <<>>, NullKey)), e)
  /\ UNCHANGED <<store, cmd, env, apiKey, responses, storeAtStart>>

LoginSleep ==
  /\ UNCHANGED createVars
  /\ pc = "sleep"
  /\ events' = Append(events, Ev("setTimeout", <<"1000">>, NullKey))
  /\ pc' = IF apiKey = NullKey THEN "poll" ELSE "afterLoop"
  /\ UNCHANGED <<store, cmd, env, apiKey, responses, outcome, history, storeAtStart>>

LoginPersist_ClientFirst ==
  /\ UNCHANGED createVars
  /\ pc = "afterLoop"
  /\ IF apiKey.tag # "key"
       THEN /\ Throw("login", events, Err("CliError", NoApiKeyMessage))
            /\ UNCHANGED store
       ELSE /\ store' = setObservableApiKey(apiKey)
            /\ events' = events \o <<Ev("setApiKey", <<"login">>, apiKey),
                                     Ev("setObservableApiKey", <<>>, apiKey)>>
            /\ pc' = "getUser"
            /\ UNCHANGED <<outcome, history>>
  /\ UNCHANGED <<cmd, env, apiKey, responses, storeAtStart>>

LoginPersist_NoCheck ==
  /\ UNCHANGED createVars
  /\ pc = "afterLoop"
  /\ store' = setObservableApiKey(apiKey)
  /\ events' = events \o <<Ev("setObservableApiKey", <<>>, apiKey),
                           Ev("setApiKey", <<"login">>, apiKey)>>
  /\ pc' = "getUser"
  /\ UNCHANGED <<outcome, history>>
  /\ UNCHANGED <<cmd, env, apiKey, responses, storeAtStart>>

LoginPersist ==
  /\ UNCHANGED createVars
  /\ pc = "afterLoop"
  /\ IF apiKey.tag # "key"
       THEN /\ Throw("login", events, Err("CliError", NoApiKeyMessage))
            /\ UNCHANGED store
       ELSE /\ store' = setObservableApiKey(apiKey)
            /\ events' = events \o <<Ev("setObservableApiKey", <<>>, apiKey),
                                     Ev("setApiKey", <<"login">>, apiKey)>>
            /\ pc' = "getUser"
            /\ UNCHANGED <<outcome, history>>
  /\ UNCHANGED <<cmd, env, apiKey, responses, storeAtStart>>

WorkspaceEvents(user) ==
  IF user.workspaces = 0
    THEN <<Ev("log.warn", <<"Warning:", " You don't have any workspaces to deploy to.">>, NullKey)>>
    ELSE IF user.workspaces > 1
      THEN <<Ev("note", <<"You have access to the following workspaces:">>, NullKey)>>
      ELSE <<>>

LoginGetUser ==
  /\ UNCHANGED createVars
  /\ pc = "getUser"
  /\ \E res \in Users \cup FetchErrors :
       LET evs == Append(events, Ev("getCurrentUser", <<>>, apiKey))
       IN IF res \in FetchErrors
            THEN Throw("login", Append(evs, Rejected(res)), res)
            ELSE /\ events' = evs \o <<Ev("spinner.stop", LoggedInMessage(res), NullKey)>>
                                  \o WorkspaceEvents(res)
                                  \o <<Ev("outro", <<"Happy visualizing!">>, NullKey)>>
                 /\ Finish("login", Ok)
  /\ UNCHANGED <<store, cmd, env, apiKey, responses, storeAtStart>>

----------------------------------------------------------------------------
(* logout, observableApiAuth.ts:94-96 *)

Logout_OnlyWhenStored ==
  /\ UNCHANGED createVars
  /\ pc = "idle"
  /\ Len(history) < MaxOps
  /\ cmd' = "logout"
  /\ env' = NoEnv
  /\ storeAtStart' = store
  /\ responses' = <<>>
  /\ apiKey' = NullKey
  /\ store' = setObservableApiKey(NullKey)
  /\ IF store.tag = "key"
       THEN /\ events' = <<Ev("setObservableApiKey", <<>>, NullKey)>>
            /\ Finish("logout", Ok)
       ELSE Throw("logout", <<>>, NotAuthenticated)

Logout ==
  /\ UNCHANGED createVars
  /\ pc = "idle"
  /\ Len(history) < MaxOps
  /\ cmd' = "logout"
  /\ env' = NoEnv
  /\ storeAtStart' = store
  /\ responses' = <<>>
  /\ apiKey' = NullKey
  /\ store' = setObservableApiKey(NullKey)
  /\ events' = <<Ev("setObservableApiKey", <<>>, NullKey)>>
  /\ Finish("logout", Ok)

----------------------------------------------------------------------------
(* whoami, observableApiAuth.ts:98-126 *)

WhoamiStart_InsideTry ==
  /\ UNCHANGED createVars
  /\ pc = "idle"
  /\ Len(history) < MaxOps
  /\ cmd' = "whoami"
  /\ storeAtStart' = store
  /\ responses' = <<>>
  /\ \E e \in Envs :
       /\ env' = e
       /\ LET got == getObservableApiKey(store, e)
              evs == <<Ev("getObservableApiKey", <<>>, NullKey)>>
          IN IF got.ok
               THEN /\ apiKey' = got.key
                    /\ events' = evs
                    /\ pc' = "whoamiFetch"
                    /\ outcome' = None
                    /\ UNCHANGED history
               ELSE /\ apiKey' = NullKey
                    /\ events' = Append(evs, Ev("log", InvalidKeyMessage(NullKey), NullKey))
                    /\ Finish("whoami", Ok)
  /\ UNCHANGED store

WhoamiStart ==
  /\ UNCHANGED createVars
  /\ pc = "idle"
  /\ Len(history) < MaxOps
  /\ cmd' = "whoami"
  /\ storeAtStart' = store
  /\ responses' = <<>>
  /\ \E e \in Envs :
       /\ env' = e
       /\ LET got == getObservableApiKey(store, e)
              evs == <<Ev("getObservableApiKey", <<>>, NullKey)>>
          IN IF got.ok
               THEN /\ apiKey' = got.key
                    /\ events' = evs
                    /\ pc' = "whoamiFetch"
                    /\ outcome' = None
                    /\ UNCHANGED history
               ELSE /\ apiKey' = NullKey
                    /\ Throw("whoami", evs, NotAuthenticated)
  /\ UNCHANGED store

RECURSIVE WorkspaceLogs(_)
WorkspaceLogs(n) ==
  IF n = 0 THEN <<>> ELSE Append(WorkspaceLogs(n - 1), Ev("log", <<" * ", "@workspace">>, NullKey))

WhoamiFetch ==
  /\ UNCHANGED createVars
  /\ pc = "whoamiFetch"
  /\ \E res \in Users \cup FetchErrors :
       LET evs == Append(events, Ev("getCurrentUser", <<>>, apiKey))
       IN IF res \in Users
            THEN /\ events' = evs \o <<Ev("log", <<>>, NullKey),
                                       Ev("log", LoggedInMessage(res), NullKey),
                                       Ev("log", <<>>, NullKey),
                                       Ev("log", <<"You have access to the following workspaces:">>, NullKey)>>
                                  \o WorkspaceLogs(res.workspaces)
                                  \o <<Ev("log", <<>>, NullKey)>>
                 /\ Finish("whoami", Ok)
            ELSE IF IsUnauthorized(res)
                   THEN /\ events' = evs \o <<Rejected(res), Ev("log", InvalidKeyMessage(apiKey), NullKey)>>
                        /\ Finish("whoami", Ok)
                   ELSE Throw("whoami", Append(evs, Rejected(res)), res)
  /\ UNCHANGED <<store, cmd, env, apiKey, responses, storeAtStart>>

----------------------------------------------------------------------------

Next ==
  \/ LoginStart
  \/ LoginPoll
  \/ LoginPollFails
  \/ LoginSleep
  \/ LoginPersist
  \/ LoginGetUser
  \/ Logout
  \/ WhoamiStart
  \/ WhoamiFetch

Spec == Init /\ [][Next]_vars

----------------------------------------------------------------------------
(* Properties of login / logout / whoami *)

OpsAt(evs, o) == {i \in 1..Len(evs) : evs[i].op = o}
Range(q) == {q[i] : i \in 1..Len(q)}

LoginCompleted == pc = "idle" /\ cmd = "login"
PollFailed == \E i \in OpsAt(events, "postAuthRequestPoll") : events[i].msg = <<>>
NonPending == {i \in 1..Len(responses) : responses[i].status # "pending"}
FirstNonPending == responses[CHOOSE i \in NonPending : \A j \in NonPending : i <= j]
Writes == OpsAt(events, "setObservableApiKey")
OnSuccessPath == Writes # {} /\ OpsAt(events, "getCurrentUser") # {}

\* C1 (as stated): in login, only `pending` results are followed by another
\* poll, so the poll is issued n+1 times for n pending results and one
\* non-pending status, and that status fixes the outcome: accepted -> success
\* path, expired / consumed / anything else -> the matching error.
C1_PollsStopAtFirstNonPending ==
  /\ \A i \in 1..Len(responses) : responses[i].status # "pending" => i = Len(responses)
  /\ (LoginCompleted /\ NonPending # {} /\ ~PollFailed) =>
       /\ PollCount = Len(responses)
       /\ LET st == FirstNonPending.status
          IN CASE st = "accepted" -> OnSuccessPath
               [] st = "expired" -> outcome = Err("CliError", ExpiredMessage)
               [] st = "consumed" -> outcome = Err("CliError", ConsumedMessage)
               [] OTHER -> outcome = Err("CliError", <<"Received an unknown polling status ", st, ".">>)

\* C2 (as stated): a completed login wrote the credential store exactly once,
\* with the pair of the accepted response, when the terminal (first
\* non-pending) status is accepted; for every other terminal status it wrote
\* nothing and the store kept its value.
C2_WriteIffAccepted ==
  (LoginCompleted /\ NonPending # {} /\ ~PollFailed) =>
     IF FirstNonPending.status = "accepted"
       THEN /\ Cardinality(Writes) = 1
            /\ \A i \in Writes : events[i].key = FirstNonPending.apiKey
       ELSE Writes = {} /\ store = storeAtStart

LoopEndedOnKey ==
  /\ responses # <<>>
  /\ Last(responses).status = "accepted"
  /\ Last(responses).apiKey.tag = "key"

\* C2 (amended): over any run of login the credential store is written at
\* most once; it is written, with the id/key pair of that response, exactly
\* when the loop ends on an accepted response carrying an id/key pair; a run
\* that ends on expired, consumed, an unrecognized status or an accepted
\* response without a key writes nothing and the store keeps its value.
C2_WriteIffAcceptedWithKey ==
  cmd = "login" =>
    /\ Cardinality(Writes) <= 1
    /\ \A i \in Writes :
         /\ LoopEndedOnKey
         /\ events[i].key = Last(responses).apiKey
         /\ store = KeyPair(Last(responses).apiKey.id, Last(responses).apiKey.key)
    /\ Writes = {} => store = storeAtStart
    /\ (LoginCompleted /\ LoopEndedOnKey) => Cardinality(Writes) = 1
    /\ (LoginCompleted /\ ~LoopEndedOnKey) => Writes = {}

C2_Witness ==
  /\ LoginCompleted
  /\ LoopEndedOnKey
  /\ Last(responses).apiKey = K2
  /\ Len(responses) = 3
  /\ store = K2
  /\ storeAtStart = K1

C2_WitnessNoKey ==
  /\ LoginCompleted
  /\ responses # <<>>
  /\ Last(responses) = PollResponse("accepted", UndefinedKey)
  /\ storeAtStart = K1

\* C3: a poll status other than pending / accepted / expired / consumed ends
\* login at once with an error whose message contains the raw status string;
\* it is not mapped to a known status and not followed by another poll.
C3_UnknownStatusSurfaced ==
  \A i \in 1..Len(responses) :
    responses[i].status \notin KnownStatuses =>
      /\ i = Len(responses)
      /\ LoginCompleted
      /\ PollCount = Len(responses)
      /\ outcome.kind = "CliError"
      /\ responses[i].status \in Range(outcome.msg)
      /\ outcome.msg \notin {ExpiredMessage, ConsumedMessage, NoApiKeyMessage}
      /\ Last(events) = Ev("throw", outcome.msg, NullKey)

C3_Witness ==
  /\ LoginCompleted
  /\ Len(responses) = 2
  /\ Last(responses).status = "Pending"
  /\ "Pending" \in Range(outcome.msg)

AuthFailures ==
  {Err("CliError", ExpiredMessage), Err("CliError", ConsumedMessage)}
    \cup {Err("CliError", <<"Received an unknown polling status ", st, ".">>) : st \in UnknownStatuses}

\* C4: a login run that ends in expired / consumed / unknown status stopped
\* the spinner in the failed state (code 2) right before raising the error,
\* and made no user fetch, no success spinner message and no outro.
C4_FailureStopsSpinner ==
  (LoginCompleted /\ outcome \in AuthFailures) =>
    /\ Len(events) >= 2
    /\ Last(events).op = "throw"
    /\ events[Len(events) - 1] = Ev("spinner.stop", <<"Failed to confirm code.", "2">>, NullKey)
    /\ OpsAt(events, "spinner.stop") = {Len(events) - 1}
    /\ OpsAt(events, "getCurrentUser") = {}
    /\ OpsAt(events, "outro") = {}

C4_Witness ==
  /\ LoginCompleted
  /\ outcome = Err("CliError", ConsumedMessage)
  /\ Len(responses) = 2
  /\ OpsAt(events, "spinner.stop") # {}

\* C5: after logout the store is erased and logout succeeded, whatever the
\* store held before (a key or nothing); hence a second logout leaves the
\* state of the first.
C5_LogoutErases ==
  (pc = "idle" /\ cmd = "logout") =>
    /\ store = NullKey
    /\ outcome = Ok
    /\ events = <<Ev("setObservableApiKey", <<>>, NullKey)>>

C5_Witness ==
  /\ pc = "idle"
  /\ history = <<"login", "logout", "logout">>
  /\ storeAtStart = NullKey
  /\ store = NullKey
  /\ outcome = Ok

C5_WitnessStored ==
  /\ pc = "idle"
  /\ cmd = "logout"
  /\ storeAtStart = K2
  /\ store = NullKey

AfterLogout(h) == h # <<>> /\ Last(h) = "logout"

\* C6: a whoami that follows a logout, with no environment override, fails
\* with the store's not-authenticated error before any user request or log.
C6_WhoamiAfterLogout ==
  /\ (pc = "whoamiFetch" /\ env = NoEnv) => ~AfterLogout(history)
  /\ (pc = "idle" /\ cmd = "whoami" /\ env = NoEnv /\ AfterLogout(SubSeq(history, 1, Len(history) - 1))) =>
       /\ outcome = NotAuthenticated
       /\ OpsAt(events, "getCurrentUser") = {}
       /\ OpsAt(events, "log") = {}
       /\ Last(events).op = "throw"

C6_Witness ==
  /\ pc = "idle"
  /\ history = <<"login", "logout", "whoami">>
  /\ env = NoEnv
  /\ outcome = NotAuthenticated

RejectedWith == {events[i].msg : i \in OpsAt(events, "getCurrentUser.rejected")}
Logged == {events[i].msg : i \in OpsAt(events, "log")}

C7_WitnessEnv ==
  /\ pc = "idle"
  /\ cmd = "whoami"
  /\ RejectedWith = {<<"HttpError", "401">>}
  /\ apiKey.source = "env"
  /\ "OBSERVABLE_TOKEN" \in UNION {Range(m) : m \in Logged}

C7_WitnessOther ==
  /\ pc = "idle"
  /\ cmd = "whoami"
  /\ RejectedWith = {<<"HttpError", "500">>}
  /\ outcome = Http500

----------------------------------------------------------------------------
(* recursiveCopyTemplate, create.ts:150-184 *)

MaxPieces == 3

SpaceAtoms == {" "}
WordAtoms == {"a", "b", "x", "y", "constructor", "function", "Object",
              "runCommand", "installCommand", "rootPath", "projectTitle", "projectTitleString"}
IsSpace(c) == c \in SpaceAtoms
IsWord(c) == c \in WordAtoms

Undefined == [defined |-> FALSE, text |-> <<>>]
Str(t) == [defined |-> TRUE, text |-> t]

OwnKeys == {"a", "b"}
PrototypeKeys == {"constructor"}
FunctionText == <<"function", " ", "Object", "-", " ", "{", " ", "-", " ", "}">>

Contexts ==
  {[k \in OwnKeys |-> IF k = "a" THEN va ELSE vb] :
     va \in {Undefined, Str(<<>>), Str(<<"x">>), Str(<<"{", "{", "b", "}", "}">>)},
     vb \in {Undefined, Str(<<"y">>)}}

Pieces ==
  { <<"{", "{", "a", "}", "}">>,
    <<"{", "{", " ", "b", " ", "}", "}">>,
    <<"{", "{", "constructor", "}", "}">>,
    <<"{", "{">>,
    <<"}", "}">>,
    <<" ">>,
    <<"a">>,
    <<"-">> }

RECURSIVE ContentsOf(_)
ContentsOf(n) ==
  IF n = 0 THEN {<<>>}
  ELSE LET shorter == ContentsOf(n - 1)
       IN shorter \cup {c \o q : c \in shorter, q \in Pieces}

\* context[key], line 175: an own property, else one inherited from
\* Object.prototype (a function), else undefined
Lookup(ctx, key) ==
  IF Len(key) = 1 /\ key[1] \in DOMAIN ctx /\ ctx[key[1]].defined
    THEN ctx[key[1]]
    ELSE IF Len(key) = 1 /\ key[1] \in PrototypeKeys
      THEN Str(FunctionText)
      ELSE Undefined

\* `if (val)`, line 176
Truthy(val) == val.defined /\ val.text # <<>>

RECURSIVE SkipWhile(_, _, _)
SkipWhile(s, i, class) ==
  IF i <= Len(s) /\ s[i] \in class THEN SkipWhile(s, i + 1, class) ELSE i

NoMatch == [ok |-> FALSE, end |-> 0, key |-> <<>>]

\* one match of /\{\{\s*(\w+)\s*\}\}/ starting at position i, line 174
MatchAt(s, i) ==
  IF i + 1 <= Len(s) /\ s[i] = "{" /\ s[i + 1] = "{"
    THEN LET p1 == SkipWhile(s, i + 2, SpaceAtoms)
             p2 == SkipWhile(s, p1, WordAtoms)
             p3 == SkipWhile(s, p2, SpaceAtoms)
         IN IF p2 > p1 /\ p3 + 1 <= Len(s) /\ s[p3] = "}" /\ s[p3 + 1] = "}"
              THEN [ok |-> TRUE, end |-> p3 + 1, key |-> SubSeq(s, p1, p2 - 1)]
              ELSE NoMatch
    ELSE NoMatch

\* the replacer callback, lines 174-178
Replacer(ctx, key) ==
  LET val == Lookup(ctx, key)
  IN IF Truthy(val) THEN [ok |-> TRUE, text |-> val.text, key |-> <<>>]
     ELSE [ok |-> FALSE, text |-> <<>>, key |-> key]

RECURSIVE ReplaceFrom(_, _, _)
ReplaceFrom(s, i, ctx) ==
  IF i > Len(s) THEN [ok |-> TRUE, text |-> <<>>, key |-> <<>>]
  ELSE LET m == MatchAt(s, i)
       IN IF m.ok
            THEN LET r == Replacer(ctx, m.key)
                 IN IF ~r.ok THEN r
                    ELSE LET rest == ReplaceFrom(s, m.end + 1, ctx)
                         IN IF rest.ok THEN [rest EXCEPT !.text = r.text \o rest.text] ELSE rest
            ELSE LET rest == ReplaceFrom(s, i + 1, ctx)
                 IN IF rest.ok THEN [rest EXCEPT !.text = <<s[i]>> \o rest.text] ELSE rest

RECURSIVE ReplaceFirstFrom(_, _, _)
ReplaceFirstFrom(s, i, ctx) ==
  IF i > Len(s) THEN [ok |-> TRUE, text |-> <<>>, key |-> <<>>]
  ELSE LET m == MatchAt(s, i)
       IN IF m.ok
            THEN LET r == Replacer(ctx, m.key)
                 IN IF ~r.ok THEN r
                    ELSE [r EXCEPT !.text = r.text \o SubSeq(s, m.end + 1, Len(s))]
            ELSE LET rest == ReplaceFirstFrom(s, i + 1, ctx)
                 IN IF rest.ok THEN [rest EXCEPT !.text = <<s[i]>> \o rest.text] ELSE rest

ReplaceAll_FirstOnly(s, ctx) == ReplaceFirstFrom(s, 1, ctx)

\* contents.replaceAll(/\{\{\s*(\w+)\s*\}\}/g, replacer), line 174
ReplaceAll(s, ctx) == ReplaceFrom(s, 1, ctx)

NoTemplateVariable(key) == <<"no template variable ">> \o key

\* paths are sequences of names, a name is a sequence of pieces
InputRoot == << <<"templates">>, <<"default">> >>
OutputRoot == << <<"hello-framework">> >>
join(root, stepPath) == root \o stepPath

EndsWith(path, suffix) == path # <<>> /\ Last(path) # <<>> /\ Last(Last(path)) = suffix

\* outputPath.replace(/\.tmpl$/, ""), line 172
StripTmpl(path) ==
  IF EndsWith(path, ".tmpl")
    THEN [path EXCEPT ![Len(path)] = SubSeq(Last(path), 1, Len(Last(path)) - 1)]
    ELSE path

Dir(stepPath) == [kind |-> "dir", path |-> stepPath, contents |-> <<>>]
File(stepPath, c) == [kind |-> "file", path |-> stepPath, contents |-> c]

TemplateFile == << <<"b.md", ".tmpl">> >>

TemplateOf(c) ==
  << Dir(<<>>),
     File(<< <<"a.js">> >>, <<"-">>),
     File(TemplateFile, c),
     Dir(<< <<"docs">> >>),
     File(<< <<"docs">>, <<".DS_Store">> >>, <<"-">>),
     File(<< <<"docs">>, <<"x", ".DS_Store">> >>, <<"-">>),
     File(<< <<"docs">>, <<"index.md", ".tmpl">> >>, <<"-", "{", "{", "a", "}", "}">>) >>

FsOp(o, p, c, r) == [op |-> o, path |-> p, contents |-> c, ok |-> r]

InitRender ==
  /\ AuthIdle
  /\ ValidateIdle
  /\ template \in {TemplateOf(c) : c \in ContentsOf(MaxPieces)}
  /\ context \in Contexts
  /\ stepIdx = 1
  /\ fsOps = <<>>
  /\ renderStatus = "running"
  /\ renderError = <<>>
  /\ WalkIdle
  /\ FlowIdle

Entry == template[stepIdx]
Visiting == renderStatus = "running" /\ stepIdx <= Len(template)

Advance ==
  /\ stepIdx' = stepIdx + 1
  /\ renderStatus' = IF stepIdx + 1 > Len(template) THEN "done" ELSE "running"
  /\ UNCHANGED <<template, context, renderError>>

RenderDirectory_FailStops ==
  /\ UNCHANGED <<validateVars, walkVars, flowVars>>
  /\ Visiting
  /\ Entry.kind = "dir"
  /\ \E made \in BOOLEAN :
       /\ fsOps' = Append(fsOps, FsOp("mkdir", join(OutputRoot, Entry.path), <<>>, made))
       /\ IF made
            THEN Advance
            ELSE /\ renderStatus' = "failed"
                 /\ renderError' = <<"EEXIST">>
                 /\ UNCHANGED <<template, context, stepIdx>>
  /\ UNCHANGED authVars

\* lines 160-168: mkdir, whose failure is swallowed, then the entries
RenderDirectory ==
  /\ UNCHANGED <<validateVars, walkVars, flowVars>>
  /\ Visiting
  /\ Entry.kind = "dir"
  /\ \E made \in BOOLEAN :
       fsOps' = Append(fsOps, FsOp("mkdir", join(OutputRoot, Entry.path), <<>>, made))
  /\ Advance
  /\ UNCHANGED authVars

\* line 170
RenderSkip ==
  /\ UNCHANGED <<validateVars, walkVars, flowVars>>
  /\ Visiting
  /\ Entry.kind = "file"
  /\ EndsWith(join(InputRoot, Entry.path), ".DS_Store")
  /\ UNCHANGED fsOps
  /\ Advance
  /\ UNCHANGED authVars

\* lines 171-179
RenderTemplate ==
  /\ UNCHANGED <<validateVars, walkVars, flowVars>>
  /\ Visiting
  /\ Entry.kind = "file"
  /\ ~EndsWith(join(InputRoot, Entry.path), ".DS_Store")
  /\ EndsWith(join(InputRoot, Entry.path), ".tmpl")
  /\ LET r == ReplaceAll(Entry.contents, context)
     IN IF r.ok
          THEN /\ fsOps' = Append(fsOps, FsOp("writeFile", StripTmpl(join(OutputRoot, Entry.path)), r.text, TRUE))
               /\ Advance
          ELSE /\ renderStatus' = "failed"
               /\ renderError' = NoTemplateVariable(r.key)
               /\ UNCHANGED <<template, context, stepIdx, fsOps>>
  /\ UNCHANGED authVars

\* lines 180-182
RenderCopy ==
  /\ UNCHANGED <<validateVars, walkVars, flowVars>>
  /\ Visiting
  /\ Entry.kind = "file"
  /\ ~EndsWith(join(InputRoot, Entry.path), ".DS_Store")
  /\ ~EndsWith(join(InputRoot, Entry.path), ".tmpl")
  /\ fsOps' = Append(fsOps, FsOp("copyFile", join(OutputRoot, Entry.path), Entry.contents, TRUE))
  /\ Advance
  /\ UNCHANGED authVars

NextRender ==
  \/ RenderDirectory
  \/ RenderSkip
  \/ RenderTemplate
  \/ RenderCopy

SpecRender == InitRender /\ [][NextRender]_vars

----------------------------------------------------------------------------
(* Properties of recursiveCopyTemplate *)

\* s[i..j] is a placeholder token: "{{", spaces, an identifier, spaces, "}}"
IsTokenWith(s, i, j, a, b) ==
  /\ i + 2 <= a /\ a <= b /\ b <= j - 2
  /\ s[i] = "{" /\ s[i + 1] = "{" /\ s[j - 1] = "}" /\ s[j] = "}"
  /\ \A k \in (i + 2)..(a - 1) : s[k] = " "
  /\ \A k \in a..b : s[k] \in WordAtoms
  /\ \A k \in (b + 1)..(j - 2) : s[k] = " "

Tokens(s) ==
  LET starts == {i \in 1..(Len(s) - 1) : s[i] = "{" /\ s[i + 1] = "{"}
      ends == {j \in 2..Len(s) : s[j - 1] = "}" /\ s[j] = "}"}
      words == {k \in 1..Len(s) : s[k] \in WordAtoms}
  IN {t \in starts \X ends \X words \X words : IsTokenWith(s, t[1], t[2], t[3], t[4])}

TokenKey(s, t) == SubSeq(s, t[3], t[4])

HasMapping(ctx, key) ==
  /\ Len(key) = 1
  /\ key[1] \in DOMAIN ctx
  /\ ctx[key[1]].defined
  /\ ctx[key[1]].text # <<>>

RECURSIVE SubstitutedFrom(_, _, _, _)
SubstitutedFrom(s, i, ctx, toks) ==
  IF i > Len(s) THEN <<>>
  ELSE LET here == {t \in toks : t[1] = i}
       IN IF here = {} THEN <<s[i]>> \o SubstitutedFrom(s, i + 1, ctx, toks)
          ELSE LET t == CHOOSE u \in here : TRUE
               IN ctx[TokenKey(s, t)[1]].text \o SubstitutedFrom(s, t[2] + 1, ctx, toks)

Substituted(s, ctx) == SubstitutedFrom(s, 1, ctx, Tokens(s))

TemplateEntries ==
  {k \in 1..Len(template) :
     /\ template[k].kind = "file"
     /\ Last(Last(template[k].path)) = ".tmpl"}

Settled(k) == stepIdx > k \/ (renderStatus = "failed" /\ stepIdx = k)

RenderedName(k) ==
  OutputRoot \o SubSeq(template[k].path, 1, Len(template[k].path) - 1)
    \o << SubSeq(Last(template[k].path), 1, Len(Last(template[k].path)) - 1) >>

OpsOn(k) ==
  {n \in 1..Len(fsOps) :
     /\ fsOps[n].op \in {"writeFile", "copyFile"}
     /\ fsOps[n].path \in {RenderedName(k), OutputRoot \o template[k].path}}

\* C8: a template file whose placeholders all have a non-empty mapping is
\* rendered by exactly one write, to the path without the .tmpl suffix, of
\* the source contents with every placeholder token replaced by its value.
C8_RenderSubstitutesAll ==
  \A k \in TemplateEntries :
    LET src == template[k].contents
    IN (Settled(k) /\ \A t \in Tokens(src) : HasMapping(context, TokenKey(src, t))) =>
         /\ stepIdx > k
         /\ Cardinality(OpsOn(k)) = 1
         /\ \A n \in OpsOn(k) :
              fsOps[n] = FsOp("writeFile", RenderedName(k), Substituted(src, context), TRUE)

C8_Witness ==
  /\ stepIdx > 3
  /\ template[3].path = TemplateFile
  /\ template[3].contents = <<"{", "{", "a", "}", "}", "{", "{", " ", "b", " ", "}", "}", "-">>
  /\ context = [k \in OwnKeys |-> IF k = "a" THEN Str(<<"x">>) ELSE Str(<<"y">>)]
  /\ fsOps[3] = FsOp("writeFile", << <<"hello-framework">>, <<"b.md">> >>, <<"x", "y", "-">>, TRUE)

\* C9 (as stated): a template file with a placeholder whose key is absent from
\* the context or mapped to the empty string fails with an error naming such
\* a key, and the output file is not written.
C9_UnresolvedFails ==
  \A k \in TemplateEntries :
    LET src == template[k].contents
        unresolved == {t \in Tokens(src) : ~HasMapping(context, TokenKey(src, t))}
    IN (Settled(k) /\ unresolved # {}) =>
         /\ renderStatus = "failed"
         /\ stepIdx = k
         /\ \E t \in unresolved : renderError = <<"no template variable ">> \o TokenKey(src, t)
         /\ OpsOn(k) = {}

----------------------------------------------------------------------------
(* validateRootPath and canWriteRecursive, create.ts:126-148 *)

\* a path is absolute or relative and has segments; "" has none and is relative
Path(a, g) == [abs |-> a, segs |-> g]
EmptyInput == Path(FALSE, <<>>)
Dot == Path(FALSE, <<".">>)
Root == Path(TRUE, <<>>)

\* the filesystem: / , /h , /h/w (the working directory) , /h/w/p , /h/w/p/q , /h/x
Cwd == <<"h", "w">>
Nodes == {<<>>, <<"h">>, <<"h", "w">>, <<"h", "w", "p">>, <<"h", "w", "p", "q">>, <<"h", "x">>}
Parent(n) == SubSeq(n, 1, Len(n) - 1)

FsKinds ==
  {k \in [Nodes -> {"absent", "file", "dir"}] :
     /\ k[<<>>] = "dir" /\ k[<<"h">>] = "dir" /\ k[Cwd] = "dir"
     /\ \A n \in Nodes : (n # <<>> /\ k[n] # "absent") => k[Parent(n)] = "dir"}

RawPaths ==
  { EmptyInput,
    Path(FALSE, <<".">>),
    Path(FALSE, <<"..">>),
    Path(FALSE, <<"p">>),
    Path(FALSE, <<".", "p">>),
    Path(FALSE, <<"p", "q">>),
    Path(FALSE, <<"p", "q", "r">>),
    Path(FALSE, <<"..", "x">>),
    Path(FALSE, <<"p", "..", "n">>),
    Path(TRUE, <<>>),
    Path(TRUE, <<"h", "x">>),
    Path(TRUE, <<"h", "w", "p">>) }

RECURSIVE normalizeSegs(_, _, _)
normalizeSegs(segs, acc, abs) ==
  IF segs = <<>> THEN acc
  ELSE LET g == Head(segs)
       IN IF g = "." THEN normalizeSegs(Tail(segs), acc, abs)
          ELSE IF g = ".."
            THEN IF acc # <<>> /\ Last(acc) # ".."
                   THEN normalizeSegs(Tail(segs), SubSeq(acc, 1, Len(acc) - 1), abs)
                   ELSE IF abs THEN normalizeSegs(Tail(segs), acc, abs)
                        ELSE normalizeSegs(Tail(segs), Append(acc, g), abs)
            ELSE normalizeSegs(Tail(segs), Append(acc, g), abs)

\* path.normalize
normalize(path) ==
  LET g == normalizeSegs(path.segs, <<>>, path.abs)
  IN IF ~path.abs /\ g = <<>> THEN Dot ELSE Path(path.abs, g)

\* path.dirname: "/" and "." are their own dirname
dirname(path) ==
  IF Len(path.segs) <= 1
    THEN IF path.abs THEN Root ELSE Dot
    ELSE Path(path.abs, SubSeq(path.segs, 1, Len(path.segs) - 1))

RECURSIVE resolveSegs(_, _)
resolveSegs(loc, segs) ==
  IF segs = <<>> THEN loc
  ELSE LET g == Head(segs)
       IN IF g = "." THEN resolveSegs(loc, Tail(segs))
          ELSE IF g = ".."
            THEN resolveSegs(IF loc = <<>> THEN loc ELSE Parent(loc), Tail(segs))
            ELSE resolveSegs(Append(loc, g), Tail(segs))

\* the node a path names, relative paths being taken from the working directory
Resolve(path) == resolveSegs(IF path.abs THEN <<>> ELSE Cwd, path.segs)

KindOf(loc) == IF loc \in Nodes THEN fsKind[loc] ELSE "absent"

\* accessSync(dir, constants.W_OK) does not throw
accessSync(path) == KindOf(Resolve(path)) # "absent" /\ Resolve(path) \in fsWritable

existsSync(path) == KindOf(Resolve(path)) # "absent"
isDirectory(path) == KindOf(Resolve(path)) = "dir"
readdirSync(path) == {n \in Nodes : n # <<>> /\ Parent(n) = Resolve(path) /\ fsKind[n] # "absent"}

RECURSIVE canWriteRecursive(_)
canWriteRecursive(path) ==
  LET dir == dirname(path)
  IN IF accessSync(dir) THEN TRUE
     ELSE IF dir = path THEN FALSE
     ELSE canWriteRecursive(dir)

validateRootPath_NoReaddir(raw) ==
  IF raw = EmptyInput THEN ""
  ELSE LET path == normalize(raw)
       IN IF ~canWriteRecursive(path) THEN "Path is not writable."
          ELSE IF ~existsSync(path) THEN ""
          ELSE IF ~isDirectory(path) THEN "File already exists."
          ELSE ""

validateRootPath_NoDefault(raw) ==
  LET path == normalize(raw)
  IN IF ~canWriteRecursive(path) THEN "Path is not writable."
     ELSE IF ~existsSync(path) THEN ""
     ELSE IF ~isDirectory(path) THEN "File already exists."
     ELSE IF Cardinality(readdirSync(path)) # 0 THEN "Directory is not empty."
     ELSE ""

validateRootPath(raw) ==
  IF raw = EmptyInput THEN ""
  ELSE LET path == normalize(raw)
       IN IF ~canWriteRecursive(path) THEN "Path is not writable."
          ELSE IF ~existsSync(path) THEN ""
          ELSE IF ~isDirectory(path) THEN "File already exists."
          ELSE IF Cardinality(readdirSync(path)) # 0 THEN "Directory is not empty."
          ELSE ""

InitValidate ==
  /\ AuthIdle
  /\ RenderIdle
  /\ fsKind \in FsKinds
  /\ fsWritable \in SUBSET {n \in Nodes : fsKind[n] # "absent"}
  /\ rootPath \in RawPaths
  /\ validation = "pending"
  /\ WalkIdle
  /\ FlowIdle

\* the prompt calls validate on the submitted text, create.ts:54
Validate ==
  /\ validation = "pending"
  /\ validation' = validateRootPath(rootPath)
  /\ UNCHANGED <<fsKind, fsWritable, rootPath>>
  /\ UNCHANGED <<authVars, renderVars, walkVars, flowVars>>

NextValidate == Validate

SpecValidate == InitValidate /\ [][NextValidate]_vars

----------------------------------------------------------------------------
(* Properties of validateRootPath *)

Validated == validation \notin {"idle", "pending"}
Target == Resolve(normalize(rootPath))

ProperAncestors(loc) == {SubSeq(loc, 1, n) : n \in 0..(Len(loc) - 1)}
NoWritableAncestor ==
  \A d \in ProperAncestors(Target) : ~(KindOf(d) = "dir" /\ d \in fsWritable)

Decision(notWritable) ==
  IF rootPath = EmptyInput THEN ""
  ELSE IF notWritable THEN "Path is not writable."
  ELSE IF KindOf(Target) = "absent" THEN ""
  ELSE IF KindOf(Target) # "dir" THEN "File already exists."
  ELSE IF \E n \in Nodes : n # <<>> /\ Parent(n) = Target /\ fsKind[n] # "absent"
    THEN "Directory is not empty."
  ELSE ""

\* C10 (as stated): the empty input is accepted; otherwise 'Path is not
\* writable.' when no ancestor directory of the path is writable; otherwise a
\* nonexistent path is accepted, an existing non-directory gives 'File already
\* exists.', a non-empty directory 'Directory is not empty.', and an empty
\* directory is accepted.
C10_DecisionByAncestors ==
  Validated => validation = Decision(NoWritableAncestor)

\* the paths canWriteRecursive tests: the leading parts of the normalized
\* path, ending with "/" for an absolute path and "." for a relative one
TestedPaths ==
  LET path == normalize(rootPath)
  IN IF path.abs
       THEN {Path(TRUE, SubSeq(path.segs, 1, n)) : n \in 0..(Len(path.segs) - 1)} \cup {Root}
       ELSE {Path(FALSE, SubSeq(path.segs, 1, n)) : n \in 1..(Len(path.segs) - 1)} \cup {Dot}

NoneTestedWritable ==
  \A d \in TestedPaths : ~(KindOf(Resolve(d)) # "absent" /\ Resolve(d) \in fsWritable)

\* C10 (amended): as stated, except that 'Path is not writable.' is returned
\* when none of the tested paths passes the write-access test, the tested
\* paths being the leading parts of the normalized path down to "/" or ".".
C10_DecisionByTestedPaths ==
  Validated => validation = Decision(NoneTestedWritable)

C10_Witness ==
  /\ Validated
  /\ rootPath = Path(FALSE, <<"p", "q">>)
  /\ fsKind[<<"h", "w", "p", "q">>] = "dir"
  /\ fsWritable = {<<"h">>}
  /\ validation = "Path is not writable."

C10_WitnessNotEmpty ==
  /\ Validated
  /\ rootPath = Path(FALSE, <<".", "p">>)
  /\ fsKind[<<"h", "w", "p", "q">>] = "file"
  /\ fsWritable = {Cwd}
  /\ validation = "Directory is not empty."

C10_WitnessDefault ==
  /\ Validated
  /\ rootPath = EmptyInput
  /\ fsWritable = {}
  /\ fsKind[<<"h", "w", "p">>] = "file"
  /\ validation = ""

NonEmptyDirectory ==
  /\ rootPath # EmptyInput
  /\ KindOf(Target) = "dir"
  /\ \E n \in Nodes : n # <<>> /\ Parent(n) = Target /\ fsKind[n] # "absent"

\* C11 (as stated): for every path that exists and is a non-empty directory
\* validateRootPath returns 'Directory is not empty.', whatever the
\* writability of the path's ancestors.
C11_NonEmptyAlwaysReported ==
  (Validated /\ NonEmptyDirectory) => validation = "Directory is not empty."

\* C11 (amended): for every path that exists and is a non-empty directory
\* validateRootPath returns 'Directory is not empty.' when one of the paths
\* canWriteRecursive tests passes the write-access test, and 'Path is not
\* writable.' when none does.
C11_NonEmptyReportedWhenWritable ==
  (Validated /\ NonEmptyDirectory) =>
     validation = IF NoneTestedWritable THEN "Path is not writable." ELSE "Directory is not empty."

C11_Witness ==
  /\ Validated
  /\ rootPath = Path(TRUE, <<"h", "w", "p">>)
  /\ fsKind[<<"h", "w", "p", "q">>] = "dir"
  /\ fsWritable = {<<"h">>, <<"h", "w", "p", "q">>}
  /\ validation = "Directory is not empty."

C11_WitnessNotWritable ==
  /\ Validated
  /\ rootPath = Path(FALSE, <<"p">>)
  /\ fsKind[<<"h", "w", "p", "q">>] = "file"
  /\ fsWritable = {<<"h", "w", "p">>}
  /\ validation = "Path is not writable."

----------------------------------------------------------------------------
(* Further properties of recursiveCopyTemplate *)

FileEntries == {k \in 1..Len(template) : template[k].kind = "file"}
FileName(k) == Last(template[k].path)

\* C12 (as stated): a visited template file produces no output exactly when
\* its name is exactly .DS_Store; every other file without the template
\* suffix is copied once, unchanged, to the same relative path.
C12_OnlyDsStoreSkipped ==
  \A k \in FileEntries :
    stepIdx > k =>
      /\ OpsOn(k) = {} <=> FileName(k) = <<".DS_Store">>
      /\ (FileName(k) # <<".DS_Store">> /\ Last(FileName(k)) # ".tmpl") =>
           /\ Cardinality(OpsOn(k)) = 1
           /\ \A n \in OpsOn(k) :
                fsOps[n] = FsOp("copyFile", OutputRoot \o template[k].path, template[k].contents, TRUE)

----------------------------------------------------------------------------
(* Further properties of login *)

Waits == OpsAt(events, "setTimeout")
PendingResults == {i \in 1..Len(responses) : responses[i].status = "pending"}

\* C13 (as stated): in login every 1-second wait directly follows a poll that
\* answered pending, and a finished run has waited exactly as many times as
\* it received pending, so no wait follows accepted or another terminal status.
C13_WaitOnlyAfterPending ==
  cmd = "login" =>
    /\ \A i \in Waits :
         /\ i > 1
         /\ events[i - 1].op = "postAuthRequestPoll"
         /\ events[i - 1].msg = <<"pending">>
    /\ LoginCompleted => Cardinality(Waits) = Cardinality(PendingResults)

SuccessStops == {i \in OpsAt(events, "spinner.stop") : events[i] # SpinnerStopFailed}
FetchRejected == OpsAt(events, "getCurrentUser.rejected") # {}

\* C14: on the accepted path of login the key is written to the credential
\* store, then the client is given that same key, then the user is fetched,
\* then the spinner stops with the success message; a login whose user fetch
\* fails ends with the fetch error, without the success message, and the
\* store still holds the new key.
C14_AcceptedPathOrder ==
  cmd = "login" =>
    /\ \A c \in OpsAt(events, "setApiKey") :
         \E w \in Writes :
           /\ w < c
           /\ events[w].key.tag = "key"
           /\ events[c].key = events[w].key
    /\ \A g \in OpsAt(events, "getCurrentUser") :
         \E c \in OpsAt(events, "setApiKey") : c < g /\ events[g].key = events[c].key
    /\ \A t \in SuccessStops :
         \E g \in OpsAt(events, "getCurrentUser") : g < t
    /\ (LoginCompleted /\ outcome = Ok) =>
         /\ SuccessStops # {}
         /\ \A t \in SuccessStops : events[t].msg \in {LoggedInMessage(u) : u \in Users}
    /\ (LoginCompleted /\ FetchRejected) =>
         /\ outcome \in FetchErrors
         /\ SuccessStops = {}
         /\ \E w \in Writes : store = KeyPair(events[w].key.id, events[w].key.key)

C14_Witness ==
  /\ LoginCompleted
  /\ FetchRejected
  /\ outcome = Http500
  /\ storeAtStart = K1
  /\ store = K2

C14_WitnessSuccess ==
  /\ LoginCompleted
  /\ outcome = Ok
  /\ SuccessStops # {}
  /\ store = K1

AcceptedWithoutKey ==
  {i \in 1..Len(responses) : responses[i].status = "accepted" /\ responses[i].apiKey.tag # "key"}

\* C20 (as stated): login never writes an absent key: an accepted response
\* without an API key is the last poll of the run, the run fails with
\* 'No API key returned from server.' and writes nothing to the credential
\* store; a write of the erase value belongs to logout only.
C20_AcceptedWithoutKeyFails ==
  /\ \A w \in Writes : events[w].key.tag # "key" => cmd = "logout"
  /\ cmd = "login" =>
       /\ \A i \in AcceptedWithoutKey : i = Len(responses)
       /\ (LoginCompleted /\ AcceptedWithoutKey # {}) =>
            /\ outcome = Err("CliError", NoApiKeyMessage)
            /\ Writes = {}

----------------------------------------------------------------------------
(* Directories of the template tree *)

DirEntries == {k \in 1..Len(template) : template[k].kind = "dir"}
MkdirsOf(d) ==
  {n \in 1..Len(fsOps) :
     fsOps[n].op = "mkdir" /\ fsOps[n].path = OutputRoot \o template[d].path}
\* the entries readdir returns for directory d
EntriesOf(d) ==
  {k \in 1..Len(template) :
     /\ template[k].path # <<>>
     /\ SubSeq(template[k].path, 1, Len(template[k].path) - 1) = template[d].path}
OutputsOf(k) == IF template[k].kind = "dir" THEN MkdirsOf(k) ELSE OpsOn(k)
Skipped(k) == template[k].kind = "file" /\ EndsWith(template[k].path, ".DS_Store")

\* C17: for every directory of the template tree the output directory is
\* created (once) before any entry of that directory is processed, and a
\* failed creation raises no error: rendering fails only at a file, and a
\* finished render has produced the output of every entry of every directory.
C17_MkdirBeforeEntries ==
  renderStatus # "idle" =>
    /\ \A d \in DirEntries :
         /\ stepIdx > d => Cardinality(MkdirsOf(d)) = 1
         /\ \A k \in EntriesOf(d) :
              /\ stepIdx >= k => MkdirsOf(d) # {}
              /\ \A n \in OutputsOf(k) : \E m \in MkdirsOf(d) : m < n
              /\ (renderStatus = "done" /\ ~Skipped(k)) => Cardinality(OutputsOf(k)) = 1
    /\ renderStatus = "failed" =>
         /\ Entry.kind = "file"
         /\ renderError # <<>>
         /\ renderError[1] = "no template variable "

C17_Witness ==
  /\ renderStatus = "done"
  /\ \E m, n \in 1..Len(fsOps) :
       /\ m < n
       /\ fsOps[m] = FsOp("mkdir", OutputRoot \o << <<"docs">> >>, <<>>, FALSE)
       /\ fsOps[n].op = "writeFile"
       /\ fsOps[n].path = OutputRoot \o << <<"docs">>, <<"index.md">> >>

----------------------------------------------------------------------------
(* canWriteRecursive, create.ts:135-148, one loop iteration per step *)

InitWalk ==
  /\ AuthIdle
  /\ RenderIdle
  /\ FlowIdle
  /\ fsKind \in FsKinds
  /\ fsWritable \in SUBSET {n \in Nodes : fsKind[n] # "absent"}
  /\ rootPath \in RawPaths \ {EmptyInput}
  /\ validation = "pending"
  /\ walkPath = normalize(rootPath)
  /\ walkTested = <<>>
  /\ walkResult = "running"

WalkStep_TestsPath ==
  /\ walkResult = "running"
  /\ LET dir == dirname(walkPath)
     IN /\ walkTested' = Append(walkTested, walkPath)
        /\ IF accessSync(walkPath)
             THEN walkResult' = "true" /\ UNCHANGED walkPath
             ELSE IF dir = walkPath
               THEN walkResult' = "false" /\ UNCHANGED walkPath
               ELSE walkPath' = dir /\ UNCHANGED walkResult
  /\ UNCHANGED <<authVars, renderVars, validateVars, flowVars>>

\* lines 137-146: dirname, the access test, the break test, the assignment
WalkStep ==
  /\ walkResult = "running"
  /\ LET dir == dirname(walkPath)
     IN /\ walkTested' = Append(walkTested, dir)
        /\ IF accessSync(dir)
             THEN walkResult' = "true" /\ UNCHANGED walkPath
             ELSE IF dir = walkPath
               THEN walkResult' = "false" /\ UNCHANGED walkPath
               ELSE walkPath' = dir /\ UNCHANGED walkResult
  /\ UNCHANGED <<authVars, renderVars, validateVars, flowVars>>

NextWalk == WalkStep

SpecWalk == InitWalk /\ [][NextWalk]_vars

\* the loop is synchronous: an iteration that can run does run
SpecWalkFair == SpecWalk /\ WF_vars(WalkStep)

----------------------------------------------------------------------------
(* Properties of canWriteRecursive *)

WalkDone == walkResult \in {"true", "false"}
TestedNodes == {Resolve(walkTested[i]) : i \in 1..Len(walkTested)}

\* C18 (as stated): canWriteRecursive terminates for every path, returns true
\* exactly when a proper ancestor directory of the path is writable, and never
\* tests the path itself.
C18_ProperAncestorsDecide ==
  /\ <>WalkDone
  /\ [](WalkDone => /\ walkResult = "true" <=> ~NoWritableAncestor
                    /\ Target \notin TestedNodes)

\* C18 (amended): canWriteRecursive terminates for every path, the walk
\* stopping at the fixed point of dirname ("/" for an absolute path, "." for a
\* relative one, which a failing walk tests twice); it tests the successive
\* dirnames of the path, stopping at the first that passes, and returns true
\* exactly when one of them passes the write-access test. The path itself is the one tested when it is "/" or
\* ".", a relative path is never tested above ".", and a writable file passes.
C18_TestedChainDecides ==
  /\ <>WalkDone
  /\ [](/\ Range(walkTested) \subseteq TestedPaths
        /\ Len(walkTested) <= Len(normalize(rootPath).segs) + 1
        /\ \A i \in 1..(Len(walkTested) - 1) : ~accessSync(walkTested[i])
        /\ WalkDone =>
             /\ walkResult = "true" <=> ~NoneTestedWritable
             /\ walkResult = "true" <=> canWriteRecursive(normalize(rootPath))
             /\ walkResult = "true" => accessSync(Last(walkTested))
             /\ walkResult = "false" => Range(walkTested) = TestedPaths)

C18_Witness ==
  /\ WalkDone
  /\ rootPath = Dot
  /\ walkTested = <<Dot>>
  /\ walkResult = "true"
  /\ fsWritable = {Cwd}

C18_WitnessRelative ==
  /\ WalkDone
  /\ rootPath = Path(FALSE, <<"p", "q">>)
  /\ fsWritable = {<<"h">>}
  /\ walkTested = <<Path(FALSE, <<"p">>), Dot, Dot>>
  /\ walkResult = "false"

C18_WitnessFile ==
  /\ WalkDone
  /\ rootPath = Path(FALSE, <<"p", "q">>)
  /\ fsKind[<<"h", "w", "p">>] = "file"
  /\ fsWritable = {<<"h", "w", "p">>}
  /\ walkResult = "true"

----------------------------------------------------------------------------
(* create, create.ts:44-124 *)

FlowEv(o, a, r) == [op |-> o, arg |-> a, ok |-> r]
Sleep1000 == FlowEv("sleep", <<"1000">>, TRUE)

PromptNames == {"rootPath", "includeSampleFiles", "packageManager", "initializeGit"}
PackageManagers == {"npm", "yarn", "null"}

\* defaultValue of the rootPath prompt, line 53
DefaultRootPath == Path(FALSE, <<".", "hello-framework">>)

\* what is typed at the rootPath prompt: nothing, the default spelled out, or
\* the name of an existing file
CreateInputs == {EmptyInput, DefaultRootPath, Path(FALSE, <<"p">>)}

\* the filesystem create starts in: the working directory holds the file p
CreateFsKind ==
  [n \in Nodes |-> IF Len(n) <= 2 /\ n # <<"h", "x">> THEN "dir"
                   ELSE IF n = <<"h", "w", "p">> THEN "file" ELSE "absent"]
CreateFsWritables == {{}, {Cwd}}

\* npm_config_user_agent split at " " and then at "/"; <<>> when unset or empty
UserAgents ==
  { <<>>,
    << <<"npm", "10.2.4">>, <<"node", "v20.11.0">> >>,
    << <<"yarn", "1.22.19">> >>,
    << <<"npm">> >>,
    << <<"", "1.0">> >> }

\* lines 186-194
inferPackageManager(userAgent) ==
  IF userAgent = <<>> THEN "null"
  ELSE LET pkgSpec == userAgent[1]
       IN IF pkgSpec = <<"">> THEN "null"
          ELSE IF Len(pkgSpec) < 2 \/ pkgSpec[1] = "" \/ pkgSpec[2] = "" THEN "null"
          ELSE pkgSpec[1]

\* lines 85-86
runCommand(packageManager) ==
  IF packageManager = "yarn" THEN <<"yarn">>
  ELSE <<IF packageManager = "null" THEN "npm" ELSE packageManager, " run">>
installCommand(packageManager) ==
  IF packageManager = "yarn" THEN <<"yarn">>
  ELSE <<IF packageManager = "null" THEN "npm" ELSE packageManager, " install">>

basename(path) == IF path.segs = <<>> THEN "" ELSE Last(path.segs)

RECURSIVE PathSegsText(_)
PathSegsText(segs) ==
  IF segs = <<>> THEN <<>>
  ELSE IF Len(segs) = 1 THEN segs
  ELSE <<Head(segs), "/">> \o PathSegsText(Tail(segs))
PathText(path) == (IF path.abs THEN <<"/">> ELSE <<>>) \o PathSegsText(path.segs)

CreateKeys == {"runCommand", "installCommand", "rootPath", "projectTitle", "projectTitleString"}

\* the context object of lines 91-97
CreateContext(ans) ==
  [k \in CreateKeys |->
     CASE k = "runCommand" -> Str(runCommand(ans.packageManager))
       [] k = "installCommand" -> Str(installCommand(ans.packageManager))
       [] k = "rootPath" -> Str(PathText(ans.rootPath))
       [] k = "projectTitle" -> Str(<<basename(ans.rootPath)>>)
       [] k = "projectTitleString" -> Str(<<"\"", basename(ans.rootPath), "\"">>)]

\* the two template sets, templates/default and templates/empty; the page of
\* the default set uses a key of the context or one the context lacks
PageContents ==
  { <<"{", "{", " ", "runCommand", " ", "}", "}">>,
    <<"{", "{", "a", "}", "}">> }
DefaultTemplate(c) ==
  << Dir(<<>>),
     File(<< <<".DS_Store">> >>, <<"-">>),
     File(<< <<"package.json", ".tmpl">> >>, <<"{", "{", "projectTitleString", "}", "}">>),
     Dir(<< <<"docs">> >>),
     File(<< <<"docs">>, <<"index.md", ".tmpl">> >>, c),
     File(<< <<"docs">>, <<"data.js">> >>, <<"-">>) >>
EmptyTemplate ==
  << Dir(<<>>),
     File(<< <<"README.md", ".tmpl">> >>, <<"{", "{", "projectTitle", "}", "}">>) >>
CreateTemplates(includeSampleFiles) ==
  IF includeSampleFiles THEN {DefaultTemplate(c) : c \in PageContents} ELSE {EmptyTemplate}

InitCreate ==
  /\ AuthIdle
  /\ RenderIdle
  /\ WalkIdle
  /\ fsKind = CreateFsKind
  /\ fsWritable \in CreateFsWritables
  /\ rootPath = EmptyInput
  /\ validation = "pending"
  /\ createPc = "start"
  /\ answers = NoAnswers
  /\ flow = <<>>
  /\ exitCode = <<>>

\* line 46
CreateIntro ==
  /\ createPc = "start"
  /\ flow' = Append(flow, FlowEv("intro", <<" observable create ">>, TRUE))
  /\ createPc' = "rootPath"
  /\ UNCHANGED <<answers, exitCode>>
  /\ UNCHANGED <<authVars, renderVars, validateVars, walkVars>>

\* lines 49-55: the text is validated on submit; a message keeps the prompt
\* open, no message resolves it, the empty text to the default value
PromptRootPath ==
  /\ createPc = "rootPath"
  /\ \E text \in CreateInputs :
       LET message == validateRootPath(text)
       IN /\ rootPath' = text
          /\ validation' = message
          /\ IF message = ""
               THEN /\ answers' = [answers EXCEPT !.rootPath = IF text = EmptyInput THEN DefaultRootPath ELSE text]
                    /\ flow' = Append(flow, FlowEv("text", <<"Where to create your project?">>, TRUE))
                    /\ createPc' = "includeSampleFiles"
               ELSE UNCHANGED <<answers, flow, createPc>>
  /\ UNCHANGED <<fsKind, fsWritable, exitCode>>
  /\ UNCHANGED <<authVars, renderVars, walkVars>>

\* lines 56-64
PromptIncludeSampleFiles ==
  /\ createPc = "includeSampleFiles"
  /\ \E value \in BOOLEAN :
       answers' = [answers EXCEPT !.includeSampleFiles = value]
  /\ flow' = Append(flow, FlowEv("select", <<"Include sample files to help you get started?">>, TRUE))
  /\ createPc' = "packageManager"
  /\ UNCHANGED exitCode
  /\ UNCHANGED <<authVars, renderVars, validateVars, walkVars>>

\* lines 65-74: the inferred package manager is only the highlighted option
PromptPackageManager ==
  /\ createPc = "packageManager"
  /\ \E value \in PackageManagers :
       answers' = [answers EXCEPT !.packageManager = value]
  /\ \E userAgent \in UserAgents :
       flow' = Append(flow, FlowEv("select", <<"Install dependencies?", inferPackageManager(userAgent)>>, TRUE))
  /\ createPc' = "initializeGit"
  /\ UNCHANGED exitCode
  /\ UNCHANGED <<authVars, renderVars, validateVars, walkVars>>

\* lines 75-78
PromptInitializeGit ==
  /\ createPc = "initializeGit"
  /\ \E value \in BOOLEAN :
       answers' = [answers EXCEPT !.initializeGit = value]
  /\ flow' = Append(flow, FlowEv("confirm", <<"Initialize git repository?">>, TRUE))
  /\ createPc' = "installing"
  /\ UNCHANGED exitCode
  /\ UNCHANGED <<authVars, renderVars, validateVars, walkVars>>

PromptCancel_ExitOne ==
  /\ createPc \in PromptNames
  /\ flow' = flow \o <<FlowEv("cancel", <<"create cancelled">>, TRUE), FlowEv("exit", <<"1">>, TRUE)>>
  /\ exitCode' = <<1>>
  /\ createPc' = "exited"
  /\ UNCHANGED answers
  /\ UNCHANGED <<authVars, renderVars, validateVars, walkVars>>

\* lines 117-122: a prompt that is cancelled makes clack.group call onCancel
PromptCancel ==
  /\ createPc \in PromptNames
  /\ flow' = flow \o <<FlowEv("cancel", <<"create cancelled">>, TRUE), FlowEv("exit", <<"0">>, TRUE)>>
  /\ exitCode' = <<0>>
  /\ createPc' = "exited"
  /\ UNCHANGED answers
  /\ UNCHANGED <<authVars, renderVars, validateVars, walkVars>>

\* lines 79-88: the copy starts; its steps are the actions of recursiveCopyTemplate
CopyStart ==
  /\ createPc = "installing"
  /\ flow' = flow \o <<FlowEv("spinner.start", <<"Copying template files">>, TRUE), Sleep1000>>
  /\ template' \in CreateTemplates(answers.includeSampleFiles)
  /\ context' = CreateContext(answers)
  /\ stepIdx' = 1
  /\ fsOps' = <<>>
  /\ renderStatus' = "running"
  /\ renderError' = <<>>
  /\ createPc' = "copy"
  /\ UNCHANGED <<answers, exitCode>>
  /\ UNCHANGED <<authVars, validateVars, walkVars>>

\* line 88: the error of recursiveCopyTemplate leaves the installing step,
\* clack.group and create
CopyRejected ==
  /\ createPc = "copy"
  /\ renderStatus = "failed"
  /\ flow' = Append(flow, FlowEv("throw", renderError, FALSE))
  /\ createPc' = "rejected"
  /\ UNCHANGED <<answers, exitCode>>
  /\ UNCHANGED <<authVars, renderVars, validateVars, walkVars>>

Install_AfterFailedCopy ==
  /\ createPc = "copy"
  /\ renderStatus \in {"done", "failed"}
  /\ IF answers.packageManager # "null"
       THEN \E ran \in BOOLEAN :
              /\ flow' = flow \o
                   <<FlowEv("spinner.message", <<"Installing dependencies via ", answers.packageManager>>, TRUE),
                     Sleep1000,
                     FlowEv("exec", <<answers.packageManager>>, ran)>>
              /\ createPc' = IF ran THEN "git" ELSE "rejected"
       ELSE /\ createPc' = "git"
            /\ UNCHANGED flow
  /\ UNCHANGED <<answers, exitCode>>
  /\ UNCHANGED <<authVars, renderVars, validateVars, walkVars>>

\* lines 100-104: exec runs the text of packageManager
Install ==
  /\ createPc = "copy"
  /\ renderStatus = "done"
  /\ IF answers.packageManager # "null"
       THEN \E ran \in BOOLEAN :
              /\ flow' = flow \o
                   <<FlowEv("spinner.message", <<"Installing dependencies via ", answers.packageManager>>, TRUE),
                     Sleep1000,
                     FlowEv("exec", <<answers.packageManager>>, ran)>>
              /\ createPc' = IF ran THEN "git" ELSE "rejected"
       ELSE /\ createPc' = "git"
            /\ UNCHANGED flow
  /\ UNCHANGED <<answers, exitCode>>
  /\ UNCHANGED <<authVars, renderVars, validateVars, walkVars>>

\* lines 105-110
InitializeGit ==
  /\ createPc = "git"
  /\ IF answers.initializeGit
       THEN \E inited, added \in BOOLEAN :
              LET evs == flow \o
                    <<FlowEv("spinner.message", <<"Initializing git repository">>, TRUE),
                      Sleep1000,
                      FlowEv("exec", <<"git init">>, inited)>>
              IN IF inited
                   THEN /\ flow' = Append(evs, FlowEv("exec", <<"git add -A">>, added))
                        /\ createPc' = IF added THEN "report" ELSE "rejected"
                   ELSE /\ flow' = evs
                        /\ createPc' = "rejected"
       ELSE /\ createPc' = "report"
            /\ UNCHANGED flow
  /\ UNCHANGED <<answers, exitCode>>
  /\ UNCHANGED <<authVars, renderVars, validateVars, walkVars>>

\* line 112
Instructions(ans) ==
  <<"cd ">> \o PathText(ans.rootPath)
    \o (IF ans.packageManager # "null" THEN <<>> ELSE installCommand(ans.packageManager))
    \o runCommand(ans.packageManager) \o <<" dev">>

\* lines 111-114
Report ==
  /\ createPc = "report"
  /\ flow' = flow \o
       <<FlowEv("spinner.stop", <<"Installed!">>, TRUE),
         FlowEv("note", Instructions(answers), TRUE),
         FlowEv("outro", <<"Problems? ", "https://cli.observablehq.com/getting-started">>, TRUE)>>
  /\ createPc' = "done"
  /\ UNCHANGED <<answers, exitCode>>
  /\ UNCHANGED <<authVars, renderVars, validateVars, walkVars>>

NextCreate ==
  \/ CreateIntro
  \/ PromptRootPath
  \/ PromptIncludeSampleFiles
  \/ PromptPackageManager
  \/ PromptInitializeGit
  \/ PromptCancel
  \/ CopyStart
  \/ RenderDirectory
  \/ RenderSkip
  \/ RenderTemplate
  \/ RenderCopy
  \/ CopyRejected
  \/ Install
  \/ InitializeGit
  \/ Report

SpecCreate == InitCreate /\ [][NextCreate]_vars

----------------------------------------------------------------------------
(* Properties of create *)

Execs == OpsAt(flow, "exec")
ExecsOf(command) == {i \in Execs : flow[i].arg = command}
GitInit == <<"git init">>
GitAdd == <<"git add -A">>
PackageManagerSelected == answers.packageManager # "null"
Reported == OpsAt(flow, "note") # {}

\* C15 (as stated): in create the template copy completes, then the install
\* command runs, then the repository is initialized, then staged; the install
\* command runs if and only if a package manager was selected, the repository
\* commands run if and only if git initialization was confirmed, and the
\* next-step instructions are reported only after every selected step
\* succeeded.
C15_BootstrapOrder ==
  /\ Execs # {} => renderStatus = "done"
  /\ \A i \in Execs :
       /\ flow[i].arg \in {installCommand(answers.packageManager), GitInit, GitAdd}
       /\ flow[i].arg = installCommand(answers.packageManager) => PackageManagerSelected
       /\ flow[i].arg \in {GitInit, GitAdd} => answers.initializeGit
  /\ \A i \in ExecsOf(GitInit) :
       \A j \in Execs \ ExecsOf(GitInit) : flow[j].arg = GitAdd <=> i < j
  /\ \A j \in ExecsOf(GitAdd) : \E i \in ExecsOf(GitInit) : i < j
  /\ createPc \in {"git", "report", "done"} =>
       (PackageManagerSelected <=> ExecsOf(installCommand(answers.packageManager)) # {})
  /\ createPc \in {"report", "done"} =>
       (answers.initializeGit <=> (ExecsOf(GitInit) # {} /\ ExecsOf(GitAdd) # {}))
  /\ Reported =>
       /\ renderStatus = "done"
       /\ createPc = "done"
       /\ \A i \in Execs : flow[i].ok

C19_CancelExitsClean ==
  /\ exitCode # <<>> => createPc = "exited"
  /\ createPc = "exited" =>
       /\ exitCode = <<0>>
       /\ Len(flow) >= 2
       /\ flow[Len(flow) - 1] = FlowEv("cancel", <<"create cancelled">>, TRUE)
       /\ Last(flow).op = "exit"
       /\ fsOps = <<>>
       /\ renderStatus = "idle"
       /\ Execs = {}
       /\ ~Reported

C19_Witness ==
  /\ createPc = "exited"
  /\ exitCode = <<0>>
  /\ OpsAt(flow, "select") # {}
  /\ OpsAt(flow, "confirm") = {}
  /\ answers.packageManager = "yarn"

C19_WitnessFirstPrompt ==
  /\ createPc = "exited"
  /\ validation = "Path is not writable."
  /\ OpsAt(flow, "text") = {}

====
